---- MODULE Spec2Model ----
(***************************************************************************)
(* A model of the Galaxy v3 API of pulp_ansible: the collection upload     *)
(* (CollectionUploadViewSet.create), the import jobs it enqueues, the      *)
(* version listing and "highest version" lookup of a distribution, the     *)
(* requirements-file parser and the sync no-op optimisation.               *)
(***************************************************************************)
EXTENDS Integers, Sequences, FiniteSets, TLC

(***************************************************************************)
(* Bounds of the model.                                                    *)
(***************************************************************************)
\* the number of upload requests a behaviour may issue
MaxUploads == 2

(***************************************************************************)
(* Semantic versions.  A stored version string is kept in the form         *)
(* semantic_version.Version gives it: major, minor, patch and the tuple    *)
(* of pre-release identifiers; an identifier is numeric (n) or             *)
(* alphanumeric (s).                                                       *)
(***************************************************************************)
NumId(n) == [num |-> TRUE, n |-> n, s |-> ""]
AlphaId(s) == [num |-> FALSE, n |-> 0, s |-> s]
Version(ma, mi, pa, pre) == [major |-> ma, minor |-> mi, patch |-> pa, prerelease |-> pre]

\* ASCII order of the alphanumeric identifiers the model uses
AlphaRank(s) ==
    CASE s = "alpha" -> 1
      [] s = "beta" -> 2
      [] s = "rc" -> 3
      [] OTHER -> 0

\* precedence of two pre-release identifiers: numeric ones compare as
\* numbers, alphanumeric ones in ASCII order, numeric below alphanumeric
IdLess(a, b) ==
    IF a.num /\ b.num THEN a.n < b.n
    ELSE IF a.num THEN TRUE
    ELSE IF b.num THEN FALSE
    ELSE AlphaRank(a.s) < AlphaRank(b.s)

RECURSIVE PreTupleLess(_, _)
\* both tuples non-empty pre-release tuples (or exhausted suffixes of them):
\* the first differing identifier decides, a proper prefix is lower
PreTupleLess(p, q) ==
    IF p = <<>> THEN q # <<>>
    ELSE IF q = <<>> THEN FALSE
    ELSE IF Head(p) = Head(q) THEN PreTupleLess(Tail(p), Tail(q))
    ELSE IdLess(Head(p), Head(q))

\* a version with a pre-release is lower than the same version without one
PrereleaseLess(p, q) ==
    IF p = <<>> THEN FALSE
    ELSE IF q = <<>> THEN TRUE
    ELSE PreTupleLess(p, q)

\* semantic_version.Version.__lt__
VersionLess(a, b) ==
    IF a.major # b.major THEN a.major < b.major
    ELSE IF a.minor # b.minor THEN a.minor < b.minor
    ELSE IF a.patch # b.patch THEN a.patch < b.patch
    ELSE PrereleaseLess(a.prerelease, b.prerelease)

(***************************************************************************)
(* The uploaded files.  A file is a collection tarball; its bytes carry    *)
(* the namespace, name and version of the collection.                      *)
(***************************************************************************)
FileNames == {"tools", "utils"}
File(name, version) == [namespace |-> "alice", name |-> name, version |-> version]
Files ==
    { File("tools", Version(1, 0, 0, <<>>)),
      File("tools", Version(1, 2, 0, <<AlphaId("rc"), NumId(1)>>)),
      File("tools", Version(1, 2, 0, <<>>)),
      File("utils", Version(1, 0, 0, <<>>)) }

NameByte(n) == IF n = "tools" THEN 1 ELSE 2

RECURSIVE PreBytes(_)
PreBytes(pre) ==
    IF pre = <<>> THEN <<>>
    ELSE <<(IF Head(pre).num THEN Head(pre).n ELSE 4 + AlphaRank(Head(pre).s))>> \o PreBytes(Tail(pre))

\* the bytes of a file, each below 16
FileBytes(f) ==
    <<NameByte(f.name), f.version.major, f.version.minor, f.version.patch>>
        \o PreBytes(f.version.prerelease)

RECURSIVE HexDigest(_, _)
HexDigest(h, bytes) ==
    IF bytes = <<>> THEN h ELSE HexDigest(h * 16 + Head(bytes), Tail(bytes))

\* the SHA-256 of a file: a digest computed from the bytes, one-to-one on
\* the files of the model (no collisions)
Sha256(f) == HexDigest(1, FileBytes(f))

\* the falsy sha256 of a request that gives no digest
NoDigest == 0
\* a digest that is the SHA-256 of no file: that of no bytes at all
BadDigest == HexDigest(1, <<>>)
Digests == { Sha256(f) : f \in Files } \cup {BadDigest}

(***************************************************************************)
(* Distributions and repositories: base_path -> repository.                *)
(***************************************************************************)
NoRepository == ""
Paths == {"d1", "d1b", "d0"}
MissingPath == "missing"
Repositories == {"r1"}
DistroRepository(path) ==
    CASE path = "d1" -> "r1"
      [] path = "d1b" -> "r1"
      [] OTHER -> NoRepository

Clients == {"c1", "c2"}

VARIABLES
    pc,          \* client -> "idle" | "save": the position of its upload request
    req,         \* client -> the request it has in progress
    response,    \* the response sent last
    lastUpload,  \* history: what kind of upload request was sent last
    nUploads,    \* the number of upload requests issued
    artifacts,   \* the Artifact table: a set of [pk, sha256]
    tasks,       \* the import jobs, in submission order
    versions,    \* the CollectionVersion table
    repoContent, \* repository -> the content of its latest version
    listing,     \* the response of the version list sent last
    requirements_file_string,  \* the text given to the requirements parser
    collection_info,           \* what the parser made of it
    page,        \* history: a page of the remote listing as it was fetched
    url,         \* the URL of the request the page answers
    filtering,   \* the filtering argument of filter_namespace
    metadata,    \* the page metadata handed to filter_namespace
    returned,    \* what filter_namespace returned
    toggle,      \* the certification request in progress and its response
    upstream,    \* the upstream of the remote: its fingerprint and its versions
    remote,      \* the remote: its requirements
    target,      \* the repository a sync fills: its stored fingerprint and content
    run          \* the sync run in progress

uploadVars == <<pc, req, response, lastUpload, nUploads, artifacts, tasks>>
contentVars == <<versions, repoContent>>
listVars == <<listing>>
parseVars == <<requirements_file_string, collection_info>>
filterVars == <<page, url, filtering, metadata, returned>>
certifyVars == <<toggle>>
syncVars == <<upstream, remote, target, run>>
vars == <<uploadVars, contentVars, listVars, parseVars, filterVars, certifyVars, syncVars>>

NoFile == [namespace |-> "", name |-> "", version |-> Version(0, 0, 0, <<>>)]
NoRequest == [path |-> "", file |-> NoFile, sha256 |-> NoDigest]
NoResponse == [status |-> 0, detail |-> "", task |-> 0]

\* no upload yet
InitUpload ==
    /\ pc = [c \in Clients |-> "idle"]
    /\ req = [c \in Clients |-> NoRequest]
    /\ response = NoResponse
    /\ lastUpload = [digest |-> "none", found |-> FALSE]
    /\ nUploads = 0
    /\ artifacts = {}
    /\ tasks = <<>>

\* no content yet
InitContent ==
    /\ versions = {}
    /\ repoContent = [r \in Repositories |-> {}]

(***************************************************************************)
(* CollectionUploadViewSet.create                                          *)
(***************************************************************************)
Response(status, detail, task) == [status |-> status, detail |-> detail, task |-> task]

\* get_object_or_404(AnsibleDistribution, base_path=path)
DistroFound(path) == path \in Paths

\* expected_digests: {"sha256": sha256} when the request gives a sha256
ExpectedDigests(sha256) ==
    IF sha256 # NoDigest THEN { <<"sha256", sha256>> } ELSE {}

\* init_and_validate called without the expected digests: nothing to compare
DigestNeverChecked(file, expected_digests) == FALSE

\* Artifact.init_and_validate raises DigestValidationError when a digest
\* computed from the file differs from the expected one
DigestValidationError(file, expected_digests) ==
    \E e \in expected_digests : e[1] = "sha256" /\ e[2] # Sha256(file)

\* the pk a new Artifact gets: a fresh one
NewPk == Cardinality(artifacts) + 1

\* an Artifact table without the unique constraint on the digest
NoUniqueConstraint(sha256) == FALSE

\* artifact.save() raises IntegrityError when the table holds the digest
IntegrityError(sha256) == \E a \in artifacts : a.sha256 = sha256

\* the locks without the repository
LocksOfArtifactOnly(artifact_pk, repository) == {ToString(artifact_pk)}

\* locks = [str(artifact.pk)], plus distro.repository when there is one
Locks(artifact_pk, repository) ==
    {ToString(artifact_pk)} \cup (IF repository # NoRepository THEN {repository} ELSE {})

\* the import job enqueue_with_reservation creates, with its kwargs
NewTask(path, artifact_pk) ==
    [ locks |-> Locks(artifact_pk, DistroRepository(path)),
      artifact_pk |-> artifact_pk,
      repository_pk |-> DistroRepository(path),
      path |-> path,
      state |-> "queued" ]

\* the expected digest of a request: none, the right one or a wrong one
DigestKind(file, sha256) ==
    IF sha256 = NoDigest THEN "none" ELSE IF sha256 = Sha256(file) THEN "right" ELSE "wrong"

\* the request arrives: distribution lookup, then Artifact.init_and_validate
UploadBegin(c, path, file, sha256) ==
    /\ pc[c] = "idle"
    /\ nUploads < MaxUploads
    /\ nUploads' = nUploads + 1
    /\ lastUpload' = [digest |-> DigestKind(file, sha256), found |-> path # MissingPath]
    /\ IF ~DistroFound(path)
       THEN /\ response' = Response(404, "Not found.", 0)
            /\ UNCHANGED <<pc, req>>
       ELSE IF DigestValidationError(file, ExpectedDigests(sha256))
       THEN /\ response' = Response(400, "sha256 mismatch", 0)
            /\ UNCHANGED <<pc, req>>
       ELSE /\ req' = [req EXCEPT ![c] = [path |-> path, file |-> file, sha256 |-> sha256]]
            /\ pc' = [pc EXCEPT ![c] = "save"]
            /\ UNCHANGED response
    /\ UNCHANGED <<artifacts, tasks, versions, repoContent>>
    /\ UNCHANGED <<listVars, parseVars, filterVars, certifyVars, syncVars>>

\* artifact.save(), then enqueue_with_reservation and the 202 response
UploadSave(c) ==
    /\ pc[c] = "save"
    /\ pc' = [pc EXCEPT ![c] = "idle"]
    /\ req' = [req EXCEPT ![c] = NoRequest]
    /\ IF IntegrityError(Sha256(req[c].file))
       THEN /\ response' = Response(400, "Artifact already exists.", 0)
            /\ UNCHANGED <<artifacts, tasks>>
       ELSE /\ artifacts' = artifacts \cup {[pk |-> NewPk, sha256 |-> Sha256(req[c].file)]}
            /\ tasks' = Append(tasks, NewTask(req[c].path, NewPk))
            /\ response' = Response(202, "", Len(tasks) + 1)
    /\ UNCHANGED <<lastUpload, nUploads, versions, repoContent>>
    /\ UNCHANGED <<listVars, parseVars, filterVars, certifyVars, syncVars>>

(***************************************************************************)
(* The dispatcher and the import job.                                      *)
(***************************************************************************)
Terminal(state) == state \in {"completed", "failed"}

\* a queued job may start once every job submitted before it that shares
\* a reserved key has reached a terminal state
MayStart(i) ==
    /\ tasks[i].state = "queued"
    /\ \A j \in 1..(i - 1) :
         tasks[j].locks \cap tasks[i].locks # {} => Terminal(tasks[j].state)

TaskStart(i) ==
    /\ MayStart(i)
    /\ tasks' = [tasks EXCEPT ![i].state = "running"]
    /\ UNCHANGED <<pc, req, response, lastUpload, nUploads, artifacts, versions, repoContent>>
    /\ UNCHANGED <<listVars, parseVars, filterVars, certifyVars, syncVars>>

\* the file an Artifact stores
ArtifactFile(artifact_pk) ==
    CHOOSE f \in Files : \E a \in artifacts : a.pk = artifact_pk /\ a.sha256 = Sha256(f)

Key(v) == [namespace |-> v.namespace, name |-> v.name, version |-> v.version]
Group(namespace, name) == { v \in versions : v.namespace = namespace /\ v.name = name }

\* the CollectionVersion table after the import of a file: the new record,
\* and is_highest of its (namespace, name) group recomputed
Imported(f) ==
    LET isHighest == \A v \in Group(f.namespace, f.name) : VersionLess(v.version, f.version)
        new == [ namespace |-> f.namespace, name |-> f.name, version |-> f.version,
                 is_highest |-> isHighest, is_certified |-> FALSE ]
        old == { IF isHighest /\ v.namespace = f.namespace /\ v.name = f.name
                 THEN [v EXCEPT !.is_highest = FALSE] ELSE v : v \in versions }
    IN old \cup {new}

\* import_collection succeeds: the CollectionVersion appears, and is added
\* to the repository when the job has one
TaskComplete(i) ==
    /\ tasks[i].state = "running"
    /\ LET f == ArtifactFile(tasks[i].artifact_pk) IN
         /\ Key(f) \notin { Key(v) : v \in versions }
         /\ versions' = Imported(f)
         /\ repoContent' =
              IF tasks[i].repository_pk # NoRepository
              THEN [repoContent EXCEPT ![tasks[i].repository_pk] = @ \cup {Key(f)}]
              ELSE repoContent
    /\ tasks' = [tasks EXCEPT ![i].state = "completed"]
    /\ UNCHANGED <<pc, req, response, lastUpload, nUploads, artifacts>>
    /\ UNCHANGED <<listVars, parseVars, filterVars, certifyVars, syncVars>>

\* import_collection raises: the job fails and leaves nothing behind
TaskFail(i) ==
    /\ tasks[i].state = "running"
    /\ tasks' = [tasks EXCEPT ![i].state = "failed"]
    /\ UNCHANGED <<pc, req, response, lastUpload, nUploads, artifacts, versions, repoContent>>
    /\ UNCHANGED <<listVars, parseVars, filterVars, certifyVars, syncVars>>

(***************************************************************************)
(* The read views of a distribution.                                       *)
(***************************************************************************)
\* AnsibleDistributionMixin.get_distro_content: the content of the latest
\* version of the distribution's repository, nothing when there is none
GetDistroContent(path) ==
    IF DistroRepository(path) = NoRepository THEN {}
    ELSE repoContent[DistroRepository(path)]

\* CollectionViewSet.get_queryset: the highest versions in the distribution
CollectionQueryset(path) ==
    { v \in versions : Key(v) \in GetDistroContent(path) /\ v.is_highest }

\* CollectionViewSet.get_object: the records get_object_or_404 chooses from
GetObject(path, namespace, name) ==
    { v \in CollectionQueryset(path) : v.namespace = namespace /\ v.name = name }

\* CollectionVersionViewSet.get_queryset
VersionQueryset(path, namespace, name) ==
    { v \in versions : /\ Key(v) \in GetDistroContent(path)
                       /\ v.namespace = namespace /\ v.name = name }

RECURSIVE SetToSeq(_)
\* the rows of a queryset, in the order the database gives them
SetToSeq(S) ==
    IF S = {} THEN <<>>
    ELSE LET x == CHOOSE x \in S : TRUE IN <<x>> \o SetToSeq(S \ {x})

RECURSIVE InsertDescending(_, _)
\* x put into a descending sequence, behind the elements that are not lower
InsertDescending(x, seq) ==
    IF seq = <<>> THEN <<x>>
    ELSE IF VersionLess(Head(seq).version, x.version) THEN <<x>> \o seq
    ELSE <<Head(seq)>> \o InsertDescending(x, Tail(seq))

RECURSIVE InsertAscending(_, _)
InsertAscending(x, seq) ==
    IF seq = <<>> THEN <<x>>
    ELSE IF VersionLess(x.version, Head(seq).version) THEN <<x>> \o seq
    ELSE <<Head(seq)>> \o InsertAscending(x, Tail(seq))

RECURSIVE SortedAscending(_)
\* sorted(queryset, key=semantic_version.Version) with reverse=True forgotten
SortedAscending(seq) ==
    IF seq = <<>> THEN <<>>
    ELSE InsertAscending(seq[Len(seq)], SortedAscending(SubSeq(seq, 1, Len(seq) - 1)))

RECURSIVE SortedDescending(_)
\* sorted(queryset, key=lambda obj: semantic_version.Version(obj.version),
\* reverse=True): a stable sort, highest first
SortedDescending(seq) ==
    IF seq = <<>> THEN <<>>
    ELSE InsertDescending(seq[Len(seq)], SortedDescending(SubSeq(seq, 1, Len(seq) - 1)))

\* the sorted queryset of CollectionVersionViewSet.list
VersionList(path, namespace, name) ==
    SortedDescending(SetToSeq(VersionQueryset(path, namespace, name)))

(***************************************************************************)
(* The upload claims.                                                      *)
(***************************************************************************)
ArtifactsOf(table, sha256) == { a \in table : a.sha256 = sha256 }

\* C1: an upload with the correct SHA-256 or with no digest succeeds, and so
\* does a second upload of the same bytes: it is answered 202 with a job for
\* the one Artifact of that digest, never a validation failure, and the
\* table holds exactly one Artifact of the digest.
C1_ReuploadSucceeds ==
    [][ /\ (nUploads' # nUploads /\ lastUpload'.found /\ lastUpload'.digest # "wrong") =>
             \E c \in Clients : pc[c] = "idle" /\ pc'[c] = "save"
        /\ \A c \in Clients :
             UploadSave(c) =>
               /\ response'.status = 202
               /\ Cardinality(ArtifactsOf(artifacts', Sha256(req[c].file))) = 1
               /\ response'.task \in 1..Len(tasks')
               /\ \E a \in ArtifactsOf(artifacts', Sha256(req[c].file)) :
                    tasks'[response'.task].artifact_pk = a.pk ]_vars

\* C2: an upload whose expected SHA-256 differs from the digest of the file
\* is answered with the digest-mismatch validation failure, and the step
\* leaves the Artifact table and the jobs as they were and does not go on
\* to save.
C2_MismatchRejected ==
    [][ (nUploads' # nUploads /\ lastUpload'.found /\ lastUpload'.digest = "wrong") =>
           /\ response' = Response(400, "sha256 mismatch", 0)
           /\ pc' = pc
           /\ artifacts' = artifacts
           /\ tasks' = tasks ]_vars

\* a wrong digest has been rejected while the table held Artifacts
C2_Witness ==
    /\ lastUpload = [digest |-> "wrong", found |-> TRUE]
    /\ response = Response(400, "sha256 mismatch", 0)
    /\ artifacts # {}

\* C3: the Artifact table never holds two Artifacts of one digest.
C3_OneArtifactPerDigest ==
    \A a, b \in artifacts : a.sha256 = b.sha256 => a = b

\* two uploads of the same bytes were in progress together: one has saved,
\* the other is still before its save
C3_Witness ==
    \E c \in Clients :
        /\ pc[c] = "save"
        /\ ArtifactsOf(artifacts, Sha256(req[c].file)) # {}

\* C4: every job reserves the key of its artifact and, when the upload's
\* distribution has a repository, the key of the repository; of two jobs
\* that share a reserved key the later one has not started unless the
\* earlier one is terminal, and two jobs for one repository never run
\* together.
C4_ReservedJobsSerialized ==
    /\ \A i \in 1..Len(tasks) :
         /\ ToString(tasks[i].artifact_pk) \in tasks[i].locks
         /\ DistroRepository(tasks[i].path) # NoRepository =>
              DistroRepository(tasks[i].path) \in tasks[i].locks
    /\ \A i, j \in 1..Len(tasks) :
         (i < j /\ tasks[i].locks \cap tasks[j].locks # {} /\ tasks[j].state # "queued")
           => Terminal(tasks[i].state)
    /\ \A i, j \in 1..Len(tasks) :
         ( /\ i # j
           /\ DistroRepository(tasks[i].path) # NoRepository
           /\ DistroRepository(tasks[i].path) = DistroRepository(tasks[j].path) )
           => ~(tasks[i].state = "running" /\ tasks[j].state = "running")

\* two jobs for one repository through different distributions: the first
\* is running and the second waits for it
C4_Witness ==
    \E i, j \in 1..Len(tasks) :
        /\ i < j
        /\ tasks[i].path # tasks[j].path
        /\ tasks[i].locks \cap tasks[j].locks # {}
        /\ tasks[i].state = "running"
        /\ tasks[j].state = "queued"

(***************************************************************************)
(* The highest version.                                                    *)
(***************************************************************************)
Groups == { <<v.namespace, v.name>> : v \in versions }

\* every non-empty group has exactly one is_highest member, its maximum
OneHighestPerGroup ==
    \A g \in Groups :
        LET G == Group(g[1], g[2]) IN
          /\ Cardinality({ v \in G : v.is_highest }) = 1
          /\ \A v \in G : v.is_highest => \A w \in G : ~VersionLess(v.version, w.version)

\* C8: every non-empty group has exactly one is_highest member, its
\* semantic-version maximum, and the highest-version lookup of a
\* distribution that lists versions of (namespace, name) finds exactly one
\* record, the first of the distribution's descending version list.
C8_HighestLookupIsHeadOfList ==
    /\ OneHighestPerGroup
    /\ \A path \in Paths, g \in Groups :
         VersionList(path, g[1], g[2]) # <<>> =>
           /\ Cardinality(GetObject(path, g[1], g[2])) = 1
           /\ \A v \in GetObject(path, g[1], g[2]) :
                Key(v) = Key(Head(VersionList(path, g[1], g[2])))

(***************************************************************************)
(* CollectionVersionViewSet.list                                           *)
(***************************************************************************)
\* the greatest limit and offset a list request of the model asks for
MaxLimit == 2
MaxOffset == 2

Min(a, b) == IF a < b THEN a ELSE b

\* paginate_queryset: the rows offset+1 .. offset+limit of the sequence
Paginate(seq, offset, limit) == SubSeq(seq, offset + 1, Min(offset + limit, Len(seq)))

NoListing ==
    [status |-> 0, path |-> "", namespace |-> "", name |-> "",
     offset |-> 0, limit |-> 0, count |-> 0, results |-> <<>>]

IdleList == listing = NoListing

\* GET .../collections/<namespace>/<name>/versions/?limit=&offset=
ListVersions(path, namespace, name, offset, limit) ==
    /\ DistroFound(path)
    /\ LET queryset == VersionList(path, namespace, name) IN
         listing' = [ status |-> 200, path |-> path, namespace |-> namespace, name |-> name,
                      offset |-> offset, limit |-> limit,
                      count |-> Len(queryset),
                      results |-> [k \in DOMAIN Paginate(queryset, offset, limit) |->
                                      Key(Paginate(queryset, offset, limit)[k])] ]
    /\ UNCHANGED <<uploadVars, contentVars, parseVars, filterVars, certifyVars, syncVars>>

\* the versions the model lists
ListedVersions ==
    { Version(2, 0, 0, <<>>),
      Version(1, 2, 0, <<NumId(1)>>),
      Version(1, 2, 0, <<AlphaId("rc")>>),
      Version(1, 2, 0, <<AlphaId("rc"), NumId(1)>>),
      Version(1, 2, 0, <<>>) }
ListedFiles ==
    { [namespace |-> "alice", name |-> "tools", version |-> v] : v \in ListedVersions }
        \cup { [namespace |-> "alice", name |-> "utils", version |-> Version(1, 0, 0, <<>>)] }

\* the CollectionVersion table that holds the files of S, is_highest on
\* the maximum of each group
TableOf(S) ==
    { [ namespace |-> f.namespace, name |-> f.name, version |-> f.version,
        is_highest |-> \A g \in S : (g.namespace = f.namespace /\ g.name = f.name)
                                       => ~VersionLess(f.version, g.version),
        is_certified |-> FALSE ] : f \in S }

\* any table of imported versions, any part of it in the repository
InitList ==
    /\ \E S \in SUBSET ListedFiles :
         /\ versions = TableOf(S)
         /\ \E R \in SUBSET S : repoContent = [r \in Repositories |-> R]
    /\ IdleList

List == \E path \in Paths, name \in FileNames, offset \in 0..MaxOffset, limit \in 1..MaxLimit :
            ListVersions(path, "alice", name, offset, limit)

(***************************************************************************)
(* The version list claim.                                                 *)
(***************************************************************************)
\* a is a higher semantic version than b: major, minor, patch in turn, then
\* a release above its pre-releases, then the pre-release identifiers
HigherVersion(a, b) ==
    \/ a.major > b.major
    \/ a.major = b.major /\ a.minor > b.minor
    \/ a.major = b.major /\ a.minor = b.minor /\ a.patch > b.patch
    \/ /\ a.major = b.major /\ a.minor = b.minor /\ a.patch = b.patch
       /\ \/ a.prerelease = <<>> /\ b.prerelease # <<>>
          \/ a.prerelease # <<>> /\ b.prerelease # <<>> /\ PreTupleLess(b.prerelease, a.prerelease)

\* the versions of (namespace, name) in the content of the distribution
VersionsIn(path, namespace, name) ==
    { k \in GetDistroContent(path) : k.namespace = namespace /\ k.name = name }

\* C7: the list holds exactly the versions of (namespace, name) in the
\* distribution's content, highest semantic version first (a release before
\* its pre-releases), and a page is the slice at its offset of that one
\* descending sequence.
C7_ListIsDescendingSlice ==
    listing.status = 200 =>
        LET S == VersionsIn(listing.path, listing.namespace, listing.name)
            n == Cardinality(S)
            rank(k) == 1 + Cardinality({ w \in S : HigherVersion(w.version, k.version) })
            length == IF n > listing.offset THEN Min(listing.limit, n - listing.offset) ELSE 0
        IN /\ listing.count = n
           /\ Len(listing.results) = length
           /\ \A i \in 1..Len(listing.results) :
                /\ listing.results[i] \in S
                /\ rank(listing.results[i]) = listing.offset + i

\* a second page that holds a release followed by one of its pre-releases
C7_Witness ==
    /\ listing.status = 200
    /\ listing.offset > 0
    /\ Len(listing.results) = 2
    /\ listing.results[1].version = Version(1, 2, 0, <<>>)
    /\ listing.results[2].version = Version(1, 2, 0, <<AlphaId("rc"), NumId(1)>>)

(***************************************************************************)
(* parse_collections_requirements_file                                     *)
(*                                                                         *)
(* What yaml.safe_load makes of a text is a Python value: None, a str, a   *)
(* list or a dict.  A value is a record of its type t and its content: the *)
(* string s, the elements l, or the items d of a dict in document order.   *)
(***************************************************************************)
\* the longest collections list of the model
MaxEntries == 2

YNone == [t |-> "none", s |-> "", l |-> <<>>, d |-> <<>>]
YStr(x) == [t |-> "str", s |-> x, l |-> <<>>, d |-> <<>>]
YList(seq) == [t |-> "list", s |-> "", l |-> seq, d |-> <<>>]
YDict(items) == [t |-> "dict", s |-> "", l |-> <<>>, d |-> items]
Item(key, value) == [k |-> key, val |-> value]

IsDict(y) == y.t = "dict"
IsNone(y) == y.t = "none"

\* key in dict
HasKey(dict, key) == \E i \in 1..Len(dict.d) : dict.d[i].k = key

\* dict.get(key, default)
Get(dict, key, default) ==
    IF HasKey(dict, key)
    THEN dict.d[CHOOSE i \in 1..Len(dict.d) : dict.d[i].k = key].val
    ELSE default

\* the characters of the strings the model iterates over
Characters(s) ==
    CASE s = "ab" -> <<YStr("a"), YStr("b")>>

\* the keys of a dict, in the order of the document
KeysOf(dict) == [i \in 1..Len(dict.d) |-> YStr(dict.d[i].k)]

\* what `for collection_req in value` goes through; None is not iterable
Iterable(y) == ~IsNone(y)
Iterate(y) ==
    CASE y.t = "list" -> y.l
      [] y.t = "str" -> Characters(y.s)
      [] y.t = "dict" -> KeysOf(y)

Returned(list) == [kind |-> "list", value |-> list, detail |-> ""]
Raised(exception, detail) == [kind |-> exception, value |-> <<>>, detail |-> detail]

\* an entry without the "*" default of the version
TripleWithoutDefault(collection_req) ==
    IF IsDict(collection_req)
    THEN << Get(collection_req, "name", YNone),
            Get(collection_req, "version", YNone),
            Get(collection_req, "source", YNone) >>
    ELSE << collection_req, YNone, YNone >>

\* the tuple (req_name, req_version, req_source) of one entry
RequirementTriple(collection_req) ==
    IF IsDict(collection_req)
    THEN << Get(collection_req, "name", YNone),
            Get(collection_req, "version", YStr("*")),
            Get(collection_req, "source", YNone) >>
    ELSE << collection_req, YStr("*"), YNone >>

RECURSIVE CollectEntries(_, _)
\* the loop over requirements["collections"]
CollectEntries(entries, info) ==
    IF entries = <<>> THEN Returned(info)
    ELSE IF IsDict(Head(entries)) /\ IsNone(Get(Head(entries), "name", YNone))
    THEN Raised("ValidationError", "Collections requirement entry should contain the key name.")
    ELSE CollectEntries(Tail(entries), Append(info, RequirementTriple(Head(entries))))

\* a requirements text: the empty string, a text yaml.safe_load fails on,
\* or a text with the value yaml.safe_load returns for it
EmptyText == [kind |-> "empty", yaml |-> YNone]
MalformedText == [kind |-> "malformed", yaml |-> YNone]
Text(y) == [kind |-> "yaml", yaml |-> y]

ParseCollectionsRequirementsFile(string) ==
    IF string.kind = "empty" THEN Returned(<<>>)
    ELSE IF string.kind = "malformed"
    THEN Raised("ValidationError", "Failed to parse the collection requirements yml")
    ELSE LET requirements == string.yaml IN
         IF ~IsDict(requirements) \/ ~HasKey(requirements, "collections")
         THEN Raised("ValidationError", "Expecting collections requirements file to be a dict")
         ELSE IF ~Iterable(Get(requirements, "collections", YNone))
         THEN Raised("TypeError", "object is not iterable")
         ELSE CollectEntries(Iterate(Get(requirements, "collections", YNone)), <<>>)

\* the entries of the model's lists: identifiers, an empty entry, records
NameItems == { <<>>, <<Item("name", YNone)>>, <<Item("name", YStr("bob.utils"))>> }
VersionItems == { <<>>, <<Item("version", YNone)>>, <<Item("version", YStr(">=2.0"))>> }
SourceItems == { <<>>, <<Item("source", YStr("https://galaxy.example"))>> }
RecordEntries ==
    { YDict(n \o v \o src) : n \in NameItems, v \in VersionItems, src \in SourceItems }
Entries == {YStr("alice.tools"), YNone} \cup RecordEntries
EntryLists == UNION { [1..n -> Entries] : n \in 0..MaxEntries }

\* the values of the collections key: lists, and values that are no list
CollectionsValues ==
    { YList(l) : l \in EntryLists }
        \cup { YNone, YStr("ab"), YDict(<<Item("name", YStr("bob.utils"))>>) }

\* the texts of the model
RequirementsTexts ==
    {EmptyText, MalformedText}
        \cup { Text(y) : y \in { YNone, YStr("alice.tools"), YList(<<YStr("alice.tools")>>),
                                 YDict(<<Item("roles", YList(<<>>))>>) } }
        \cup { Text(YDict(<<Item("collections", c)>>)) : c \in CollectionsValues }
        \cup { Text(YDict(<<Item("roles", YList(<<>>)), Item("collections", c)>>)) :
                 c \in CollectionsValues }

NotCalled == [kind |-> "none", value |-> <<>>, detail |-> ""]

IdleParse == requirements_file_string = EmptyText /\ collection_info = NotCalled

InitParse ==
    /\ requirements_file_string \in RequirementsTexts
    /\ collection_info = NotCalled

Parse ==
    /\ collection_info = NotCalled
    /\ collection_info' = ParseCollectionsRequirementsFile(requirements_file_string)
    /\ UNCHANGED <<requirements_file_string, uploadVars, contentVars, listVars, filterVars, certifyVars, syncVars>>

(***************************************************************************)
(* The parser claims.                                                      *)
(***************************************************************************)
Parsed == collection_info # NotCalled

\* the text is a mapping whose collections key holds a list
HasCollectionsList(string) ==
    /\ string.kind = "yaml"
    /\ string.yaml.t = "dict"
    /\ HasKey(string.yaml, "collections")
    /\ Get(string.yaml, "collections", YNone).t = "list"

\* the entries of the collections list of such a text
CollectionsOf(string) == Get(string.yaml, "collections", YNone).l

\* a record entry that omits name
OmitsName(entry) == entry.t = "dict" /\ ~HasKey(entry, "name")

\* a valid document: every entry is an identifier or a record with a name
ValidDocument(string) ==
    /\ HasCollectionsList(string)
    /\ LET list == CollectionsOf(string) IN
         \A i \in 1..Len(list) :
            \/ list[i].t = "str"
            \/ list[i].t = "dict" /\ HasKey(list[i], "name") /\ Get(list[i], "name", YNone).t = "str"

\* C5: a valid document parses to one triple per entry, in document order:
\* (s, "*", None) for an identifier s, and (name, version or "*" when
\* absent, source or None when absent) for a record.
C5_TriplesInDocumentOrder ==
    (Parsed /\ ValidDocument(requirements_file_string)) =>
        LET list == CollectionsOf(requirements_file_string) IN
          /\ collection_info.kind = "list"
          /\ Len(collection_info.value) = Len(list)
          /\ \A i \in 1..Len(list) :
               LET e == list[i]
                   t == collection_info.value[i]
               IN IF e.t = "str"
                  THEN t[1] = e /\ t[2] = YStr("*") /\ t[3] = YNone
                  ELSE /\ \E j \in 1..Len(e.d) : e.d[j].k = "name" /\ t[1] = e.d[j].val
                       /\ \/ \E j \in 1..Len(e.d) : e.d[j].k = "version" /\ t[2] = e.d[j].val
                          \/ ~HasKey(e, "version") /\ t[2] = YStr("*")
                       /\ \/ \E j \in 1..Len(e.d) : e.d[j].k = "source" /\ t[3] = e.d[j].val
                          \/ ~HasKey(e, "source") /\ t[3] = YNone

\* the document of the spec: an identifier, then a record with a version
C5_Witness ==
    /\ requirements_file_string =
         Text(YDict(<< Item("collections",
            YList(<< YStr("alice.tools"),
                     YDict(<< Item("name", YStr("bob.utils")),
                              Item("version", YStr(">=2.0")) >>) >>)) >>))
    /\ collection_info =
         Returned(<< <<YStr("alice.tools"), YStr("*"), YNone>>,
                     <<YStr("bob.utils"), YStr(">=2.0"), YNone>> >>)

\* C6: a non-empty text that parses as structured text fails with the
\* validation error whenever it is not a mapping with the collections list
\* (a collections value that is no list included) or one of its record
\* entries omits name.
C6_SchemaViolationRaised ==
    ( /\ Parsed
      /\ requirements_file_string.kind = "yaml"
      /\ \/ ~HasCollectionsList(requirements_file_string)
         \/ \E i \in 1..Len(CollectionsOf(requirements_file_string)) :
               OmitsName(CollectionsOf(requirements_file_string)[i]) )
    => collection_info.kind = "ValidationError"

(***************************************************************************)
(* The sync of a repository from a remote:                                 *)
(* idle -> fetchingMetadata -> filtering -> diffing -> noop | importing    *)
(* -> done.                                                                *)
(***************************************************************************)
\* the number of sync runs, and the highest fingerprint of the upstream
MaxSyncs == 2
MaxFingerprint == 2

\* last_synced_metadata_time is None
NullFingerprint == 0

UpstreamCollections == {"alice.tools", "ansible.posix"}
\* the requirements of a remote: the names its requirements_file selects,
\* none for a remote that takes everything
RequirementSets == { {}, {"alice.tools"}, {"ansible.posix"} }

NoopMessage == "no-op: {url} did not change since last sync"

IdleRun ==
    [ state |-> "idle", n |-> 0, optimize |-> FALSE, requirements |-> {},
      fetched |-> {}, fingerprint |-> NullFingerprint, discovered |-> {},
      jobs |-> {}, messages |-> {}, outcome |-> "" ]

NewTarget == [ last_synced |-> NullFingerprint, synced_requirements |-> {}, content |-> {} ]

IdleSync ==
    /\ upstream = [fingerprint |-> 1, collections |-> {}]
    /\ remote = [requirements |-> {}]
    /\ target = NewTarget
    /\ run = IdleRun

InitSync ==
    /\ \E c \in SUBSET UpstreamCollections : upstream = [fingerprint |-> 1, collections |-> c]
    /\ \E r \in RequirementSets : remote = [requirements |-> r]
    /\ target = NewTarget
    /\ run = IdleRun

NoRunInProgress == run.state \in {"idle", "done", "failed"}

\* the upstream publishes a collection: its fingerprint changes
UpstreamPublish(c) ==
    /\ upstream.fingerprint < MaxFingerprint
    /\ c \notin upstream.collections
    /\ upstream' = [ fingerprint |-> upstream.fingerprint + 1,
                     collections |-> upstream.collections \cup {c} ]
    /\ UNCHANGED <<remote, target, run>>
    /\ UNCHANGED <<uploadVars, contentVars, listVars, parseVars, filterVars, certifyVars>>

\* the sync trigger: (remote, requirements, optimize) -> job
SyncTrigger(optimize) ==
    /\ NoRunInProgress
    /\ run.n < MaxSyncs
    /\ run' = [IdleRun EXCEPT !.state = "fetchingMetadata", !.n = run.n + 1,
                              !.optimize = optimize, !.requirements = remote.requirements]
    /\ UNCHANGED <<upstream, remote, target>>
    /\ UNCHANGED <<uploadVars, contentVars, listVars, parseVars, filterVars, certifyVars>>

\* the listing of the upstream and its fingerprint are fetched
FetchMetadata ==
    /\ run.state = "fetchingMetadata"
    /\ run' = [run EXCEPT !.state = "filtering", !.fetched = upstream.collections,
                          !.fingerprint = upstream.fingerprint]
    /\ UNCHANGED <<upstream, remote, target>>
    /\ UNCHANGED <<uploadVars, contentVars, listVars, parseVars, filterVars, certifyVars>>

\* the upstream cannot be reached: the run fails and stores nothing
UpstreamUnavailable ==
    /\ run.state = "fetchingMetadata"
    /\ run' = [run EXCEPT !.state = "failed", !.outcome = "failed"]
    /\ UNCHANGED <<upstream, remote, target>>
    /\ UNCHANGED <<uploadVars, contentVars, listVars, parseVars, filterVars, certifyVars>>

\* the fetched set cut down to the requirements; no requirement takes all
Filtered(fetched, requirements) ==
    IF requirements = {} THEN fetched ELSE fetched \cap requirements

Filter ==
    /\ run.state = "filtering"
    /\ run' = [run EXCEPT !.state = "diffing",
                          !.discovered = Filtered(run.fetched, run.requirements)]
    /\ UNCHANGED <<upstream, remote, target>>
    /\ UNCHANGED <<uploadVars, contentVars, listVars, parseVars, filterVars, certifyVars>>

\* a diff that never finds the upstream unchanged
FingerprintNeverCompared(optimize, fingerprint, last_synced) == FALSE

\* the upstream did not change since the last sync of the target
Unchanged(optimize, fingerprint, last_synced) ==
    optimize /\ last_synced # NullFingerprint /\ last_synced = fingerprint

Diff ==
    /\ run.state = "diffing"
    /\ IF Unchanged(run.optimize, run.fingerprint, target.last_synced)
       THEN run' = [run EXCEPT !.state = "noop", !.outcome = "noop",
                               !.messages = @ \cup {NoopMessage}]
       ELSE run' = [run EXCEPT !.state = "importing"]
    /\ UNCHANGED <<upstream, remote, target>>
    /\ UNCHANGED <<uploadVars, contentVars, listVars, parseVars, filterVars, certifyVars>>

\* one import job is spawned for a discovered version
SpawnImport(c) ==
    /\ run.state = "importing"
    /\ c \in run.discovered \ run.jobs
    /\ run' = [run EXCEPT !.jobs = @ \cup {c}]
    /\ UNCHANGED <<upstream, remote, target>>
    /\ UNCHANGED <<uploadVars, contentVars, listVars, parseVars, filterVars, certifyVars>>

\* the run ends: a run that imported stores the new fingerprint
SyncDone ==
    /\ \/ run.state = "noop" /\ UNCHANGED target
       \/ /\ run.state = "importing"
          /\ run.jobs = run.discovered
          /\ target' = [ last_synced |-> run.fingerprint,
                         synced_requirements |-> run.requirements,
                         content |-> target.content \cup run.discovered ]
    /\ run' = [run EXCEPT !.state = "done",
                          !.outcome = IF run.state = "noop" THEN "noop" ELSE "updated"]
    /\ UNCHANGED <<upstream, remote>>
    /\ UNCHANGED <<uploadVars, contentVars, listVars, parseVars, filterVars, certifyVars>>

\* a requirements update that leaves the stored fingerprint alone
FingerprintKept(t) == t

\* the target after the requirements of its remote were updated
FingerprintReset(t) == [t EXCEPT !.last_synced = NullFingerprint]

\* PATCH of the remote with a requirements_file; it waits for a sync of
\* the remote that is in progress
UpdateRequirements(requirements) ==
    /\ NoRunInProgress
    /\ remote' = [remote EXCEPT !.requirements = requirements]
    /\ target' = FingerprintReset(target)
    /\ UNCHANGED <<upstream, run>>
    /\ UNCHANGED <<uploadVars, contentVars, listVars, parseVars, filterVars, certifyVars>>

(***************************************************************************)
(* The sync claims.                                                        *)
(***************************************************************************)
\* an optimized run on an unchanged upstream is a no-op that reports the
\* no-op message and spawns no job, and never reaches importing
NoopOnUnchanged ==
    /\ run.state = "importing" =>
         ~(run.optimize /\ target.last_synced = run.fingerprint)
    /\ run.outcome = "noop" =>
         /\ run.optimize
         /\ target.last_synced # NullFingerprint => target.last_synced = run.fingerprint
         /\ NoopMessage \in run.messages
         /\ run.jobs = {}

MaxResults == 2
MaxParams == 2

Param(key, value) == [k |-> key, v |-> value]
Result(namespace, name) == [namespace |-> [name |-> namespace], name |-> name]

\* None, where a list is expected
NoList == <<>>

\* urllib.parse.parse_qs: the values of every key, in the order of the
\* query; a parameter with a blank value is dropped (keep_blank_values is
\* False), so a key with blank values only is not in the result
ParseQs(query) ==
    LET kept == SelectSeq(query, LAMBDA p : p.v # "")
        ValuesOf(key) ==
            LET own == SelectSeq(kept, LAMBDA p : p.k = key)
            IN [i \in 1..Len(own) |-> own[i].v]
    IN [key \in { kept[i].k : i \in 1..Len(kept) } |-> ValuesOf(key)]

\* dict.get(key): None when the key is absent
QueryGet(new_query, key) ==
    IF key \in DOMAIN new_query THEN new_query[key] ELSE NoList

\* every result is kept
MatchesAny(result, namespace) == TRUE

\* [result["namespace"]["name"]] == namespace
Matches(result, namespace) == <<result.namespace.name>> = namespace

\* filter_namespace(metadata, url, filtering): the page with its results
\* filtered, or the page as it is; results that are absent, None or empty
\* are the empty sequence here, falsy in each case
FilterNamespace(meta, request_url, filter) ==
    LET new_query == ParseQs(request_url.query)
        namespace == QueryGet(new_query, "namespace__name")
    IN IF filter /\ namespace # NoList /\ meta.results # <<>>
       THEN [meta EXCEPT !.results =
                SelectSeq(meta.results, LAMBDA result : Matches(result, namespace))]
       ELSE meta

RECURSIVE SeqsUpTo(_, _)
\* the sequences over S of length n at most
SeqsUpTo(S, n) ==
    IF n = 0 THEN {<<>>}
    ELSE LET shorter == SeqsUpTo(S, n - 1)
         IN shorter \cup { Append(seq, x) : seq \in shorter, x \in S }

Results == { Result("alice", "tools"), Result("alice", "utils"), Result("bob", "tools") }
Params ==
    { Param("namespace__name", "alice"), Param("namespace__name", "bob"),
      Param("namespace__name", ""), Param("page", "2") }
FetchedPages ==
    [ count : {3, 7}, next : {"", "/api/v2/collections/?page=2"},
      results : SeqsUpTo(Results, MaxResults) ]
Urls == [ path : {"/api/v2/collections/"}, query : SeqsUpTo(Params, MaxParams) ]

NoPage == [count |-> 0, next |-> "", results |-> <<>>]
NoUrl == [path |-> "", query |-> <<>>]

IdleFilter ==
    /\ page = NoPage /\ url = NoUrl /\ filtering = TRUE
    /\ metadata = NoPage /\ returned = NoPage

InitFilter ==
    /\ page \in FetchedPages
    /\ url \in Urls
    /\ filtering \in BOOLEAN
    /\ metadata = page
    /\ returned = NoPage

\* the call: metadata is changed in place and returned
FilterPage ==
    /\ returned = NoPage
    /\ metadata' = FilterNamespace(metadata, url, filtering)
    /\ returned' = metadata'
    /\ UNCHANGED <<page, url, filtering>>
    /\ UNCHANGED <<uploadVars, contentVars, listVars, parseVars, certifyVars, syncVars>>

(***************************************************************************)
(* The filter claim.                                                       *)
(***************************************************************************)
\* the namespaces the query of the URL names, blank ones included
NamespaceParams(request_url) ==
    SelectSeq(request_url.query, LAMBDA p : p.k = "namespace__name")

\* the URL carries a namespace filter: one parameter that names a namespace
CarriesNamespaceFilter(request_url) ==
    /\ Len(NamespaceParams(request_url)) = 1
    /\ NamespaceParams(request_url)[1].v # ""

RequestedNamespace(request_url) == NamespaceParams(request_url)[1].v

RECURSIVE OfNamespace(_, _)
\* the results of the namespace, in their order
OfNamespace(results, namespace) ==
    IF results = <<>> THEN <<>>
    ELSE IF Head(results).namespace.name = namespace
         THEN <<Head(results)>> \o OfNamespace(Tail(results), namespace)
         ELSE OfNamespace(Tail(results), namespace)

Methods == {"PUT", "DELETE"}

NoRow ==
    [ namespace |-> "", name |-> "", version |-> Version(0, 0, 0, <<>>),
      is_highest |-> FALSE, is_certified |-> FALSE ]
NoToggle == [pc |-> "idle", method |-> "", obj |-> NoRow, status |-> 0]

IdleCertify == toggle = NoToggle

\* self.get_object(): the rows of get_queryset with the version of the URL
VersionObject(path, namespace, name, version) ==
    { v \in VersionQueryset(path, namespace, name) : v.version = version }

\* obj.save(): the row of the object is written with every field of obj
SaveRow(table, obj) == { IF Key(v) = Key(obj) THEN obj ELSE v : v \in table }

\* the request arrives: get_object, 404 when the distribution or the
\* version is not found
SetCertifiedGet(path, namespace, name, version, method) ==
    /\ toggle.pc = "idle"
    /\ IF ~DistroFound(path) \/ VersionObject(path, namespace, name, version) = {}
       THEN toggle' = [NoToggle EXCEPT !.status = 404]
       ELSE \E obj \in VersionObject(path, namespace, name, version) :
               toggle' = [pc |-> "save", method |-> method, obj |-> obj, status |-> 0]
    /\ UNCHANGED <<uploadVars, contentVars, listVars, parseVars, filterVars, syncVars>>

\* obj.is_certified = request.method == "PUT"; obj.save(); Response({})
SetCertifiedSave ==
    /\ toggle.pc = "save"
    /\ versions' =
         SaveRow(versions, [toggle.obj EXCEPT !.is_certified = (toggle.method = "PUT")])
    /\ toggle' = [NoToggle EXCEPT !.status = 200]
    /\ UNCHANGED repoContent
    /\ UNCHANGED <<uploadVars, listVars, parseVars, filterVars, syncVars>>

(***************************************************************************)
(* The certification claim.                                                *)
(***************************************************************************)
\* C12: a certification request creates no job, and the step that saves
\* changes only is_certified of the addressed version (PUT to true, DELETE
\* to false): is_highest of that version and every other row stay as they
\* are, import jobs running beside it or not, and every group keeps exactly
\* one is_highest member, its maximum.
C12_ToggleChangesOnlyCertified ==
    /\ [][ toggle' # toggle => tasks' = tasks ]_vars
    /\ [][ (toggle.pc = "save" /\ toggle'.pc = "idle") =>
              versions' =
                { IF Key(v) = Key(toggle.obj)
                  THEN [v EXCEPT !.is_certified = (toggle.method = "PUT")]
                  ELSE v : v \in versions } ]_vars
    /\ []OneHighestPerGroup

(***************************************************************************)
(* The specifications.                                                     *)
(***************************************************************************)

Upload == \E c \in Clients, path \in Paths \cup {MissingPath}, file \in Files,
             sha256 \in Digests \cup {NoDigest} : UploadBegin(c, path, file, sha256)
Save == \E c \in Clients : UploadSave(c)
Start == \E i \in 1..Len(tasks) : TaskStart(i)
Complete == \E i \in 1..Len(tasks) : TaskComplete(i)
Fail == \E i \in 1..Len(tasks) : TaskFail(i)

\* uploads and their import jobs
Init == InitUpload /\ InitContent /\ IdleList /\ IdleParse /\ IdleFilter /\ IdleCertify /\ IdleSync
Next == Upload \/ Save \/ Start \/ Complete \/ Fail
Spec == Init /\ [][Next]_vars

\* version lists of a distribution
InitSpecList == InitUpload /\ InitList /\ IdleParse /\ IdleFilter /\ IdleCertify /\ IdleSync
NextList == List
SpecList == InitSpecList /\ [][NextList]_vars

\* the requirements parser applied to a text
InitSpecParse == InitUpload /\ InitContent /\ IdleList /\ InitParse /\ IdleFilter /\ IdleCertify /\ IdleSync
NextParse == Parse
SpecParse == InitSpecParse /\ [][NextParse]_vars

\* sync runs of one repository from one remote
Publish == \E c \in UpstreamCollections : UpstreamPublish(c)
Trigger == \E optimize \in BOOLEAN : SyncTrigger(optimize)
Spawn == \E c \in UpstreamCollections : SpawnImport(c)
Update == \E r \in RequirementSets : UpdateRequirements(r)
InitSpecSync == InitUpload /\ InitContent /\ IdleList /\ IdleParse /\ IdleFilter /\ IdleCertify /\ InitSync
NextSync ==
    \/ Publish \/ Trigger \/ FetchMetadata \/ UpstreamUnavailable \/ Filter \/ Diff
    \/ Spawn \/ SyncDone \/ Update
SpecSync == InitSpecSync /\ [][NextSync]_vars

\* filter_namespace applied to a fetched page
InitSpecFilter == InitUpload /\ InitContent /\ IdleList /\ IdleParse /\ InitFilter /\ IdleCertify /\ IdleSync
NextFilter == FilterPage
SpecFilter == InitSpecFilter /\ [][NextFilter]_vars

\* certification requests beside uploads and their import jobs
UploadToRepository == \E file \in Files : UploadBegin("c1", "d1", file, Sha256(file))
GetToCertify ==
    \E path \in {"d1", "d0"}, file \in Files, method \in Methods :
        SetCertifiedGet(path, file.namespace, file.name, file.version, method)
NextCertify ==
    \/ UploadToRepository \/ Save \/ Start \/ Complete \/ Fail
    \/ GetToCertify \/ SetCertifiedSave
SpecCertify == Init /\ [][NextCertify]_vars

====
